---- MODULE Spec2Model ----
(***************************************************************************)
(* Model of relayer/relayMsgs.go: the RelayMsgs container, its batching    *)
(* threshold IsMaxTx, the two-phase (src then dst) Send loop, the          *)
(* SendMsgsResult accumulator and the EncodeMsgs / DecodeMsgs adapters.    *)
(* Spec is Send on a filled container; SpecCtx adds the cancellation of    *)
(* its context; SpecReady, SpecMaxTx, SpecResult and SpecCodec apply the   *)
(* pure methods to every input within the bounds.                          *)
(*                                                                         *)
(* A provider.RelayerMessage is a record [id, size, fails]: id is the      *)
(* identity of the message value (its 1-based position in its sequence),   *)
(* size is len(bz) of what MsgBytes() returns and fails tells whether      *)
(* MsgBytes() returns an error.  The nil interface value is Nil.           *)
(* An error value is the sequence of its constituent errors, nil being the *)
(* empty sequence, so that multierr.Append is order preserving flattening. *)
(* Sizes stay far below 2^64, the width of msgLen and txSize, so the       *)
(* uint64 additions of Send never wrap here.                               *)
(***************************************************************************)
EXTENDS Integers, Sequences, FiniteSets, TLC

\* Bounds of the model.
MaxMsgs == 3
MaxSize == 3
MaxLimit == 2
MaxCount == 2

VARIABLES
    Src,            \* r.Src
    Dst,            \* r.Dst
    MaxTxSize,      \* r.MaxTxSize
    MaxMsgLength,   \* r.MaxMsgLength
    pc,             \* position of the caller / of Send
    i,              \* index of the range loop of Send (next entry to visit)
    msgLen,         \* local msgLen of Send
    txSize,         \* local txSize of Send
    bz,             \* len(bz) of the message being visited
    msgs,           \* local msgs of Send, the pending batch
    result,         \* local result of Send (the value returned)
    calls,          \* history of the SendMessages invocations of both senders
    ps,             \* <<>> or <<b>>, b the value PartiallySent() returned
    ctx,            \* the context given to Send: "live" or "done" (cancelled)
    ready,          \* <<>> or <<b>>, b the value Ready() returned
    maxTx,          \* <<>> or <<l, t, b>>, b the value IsMaxTx(l, t) returned
    combined,       \* <<>> or <<e>>, e the value Error() returned
    codecIn,        \* the argument of EncodeMsgs or DecodeMsgs
    codecOut        \* <<>> or <<s>>, s the sequence the codec call returned

\* The variables Send and the senders never touch.
pure == <<ready, maxTx, combined, codecIn, codecOut>>

vars == <<Src, Dst, MaxTxSize, MaxMsgLength, pc, i, msgLen, txSize, bz, msgs,
          result, calls, ps, ctx, pure>>

\* The nil provider.RelayerMessage.
Nil == [id |-> 0, size |-> 0, fails |-> FALSE]

\* The nil error.
NilErr == << >>

\* A message value stored at position k of a sequence.
Msg(k, s, f) == [id |-> k, size |-> s, fails |-> f]

\* The entries a caller may append at position k: nil, a small message (one
\* byte), a large one (MaxSize bytes), or a message whose MsgBytes() fails.
Entries(k) ==
    {Nil} \cup {Msg(k, s, FALSE) : s \in {1, MaxSize}} \cup {Msg(k, 0, TRUE)}

\* The zero SendMsgsResult.
ZeroResult ==
    [SuccessfulSrcBatches |-> 0, SuccessfulDstBatches |-> 0,
     SrcSendError |-> NilErr, DstSendError |-> NilErr]

\* The values a limit is given: off, the tightest, and the widest.
Limits == {0, 1, MaxLimit}

\* NewRelayMsgs: two empty sequences; the limits are public fields the
\* caller sets.
Init ==
    /\ Src = << >>
    /\ Dst = << >>
    /\ MaxTxSize \in Limits
    /\ MaxMsgLength \in Limits
    /\ pc = "build"
    /\ i = 0
    /\ msgLen = 0
    /\ txSize = 0
    /\ bz = 0
    /\ msgs = << >>
    /\ result = ZeroResult
    /\ calls = << >>
    /\ ps = << >>
    /\ ctx = "live"
    /\ ready = << >>
    /\ maxTx = << >>
    /\ combined = << >>
    /\ codecIn = << >>
    /\ codecOut = << >>

\* Ready returning false unless both sequences have entries.
ReadyNeedsBoth ==
    IF pc = "nil" THEN FALSE
    ELSE IF Len(Src) = 0 \/ Len(Dst) = 0 THEN FALSE
    ELSE TRUE

\* r.Ready(); pc = "nil" stands for a nil receiver r.
Ready ==
    IF pc = "nil" THEN FALSE
    ELSE IF Len(Src) = 0 /\ Len(Dst) = 0 THEN FALSE
    ELSE TRUE

\* IsMaxTx asking for both limits to be exceeded.
IsMaxTxBoth(l, t) ==
    /\ (MaxMsgLength # 0 /\ l > MaxMsgLength)
    /\ (MaxTxSize # 0 /\ t > MaxTxSize)

\* IsMaxTx taking a zero limit for a limit of zero.
IsMaxTxZeroIsLimit(l, t) == l > MaxMsgLength \/ t > MaxTxSize

\* IsMaxTx without its count clause.
IsMaxTxSizeOnly(l, t) == MaxTxSize # 0 /\ t > MaxTxSize

\* r.IsMaxTx(msgLen, txSize)
IsMaxTx(l, t) ==
    \/ (MaxMsgLength # 0 /\ l > MaxMsgLength)
    \/ (MaxTxSize # 0 /\ t > MaxTxSize)

\* multierr.Append(left, right)
MultierrAppend(left, right) == left \o right

\* PartiallySent asking for successes on both sides.
PartiallySentBothSides(r) ==
    /\ (r.SuccessfulSrcBatches > 0 /\ r.SuccessfulDstBatches > 0)
    /\ (r.SrcSendError # NilErr \/ r.DstSendError # NilErr)

\* SendMsgsResult.PartiallySent
PartiallySent(r) ==
    /\ (r.SuccessfulSrcBatches > 0 \/ r.SuccessfulDstBatches > 0)
    /\ (r.SrcSendError # NilErr \/ r.DstSendError # NilErr)

\* Error returning the first accumulated error only.
ErrorFirstOnly(r) ==
    IF r.SrcSendError # NilErr THEN r.SrcSendError ELSE r.DstSendError

\* SendMsgsResult.Error
Error(r) == MultierrAppend(r.SrcSendError, r.DstSendError)

\* The caller appends one entry to r.Src before Send.
AppendSrc ==
    /\ pc = "build"
    /\ Len(Src) + Len(Dst) < MaxMsgs
    /\ \E m \in Entries(Len(Src) + 1) : Src' = Append(Src, m)
    /\ UNCHANGED <<Dst, MaxTxSize, MaxMsgLength, pc, i, msgLen, txSize, bz,
                   msgs, result, calls, ps, ctx, pure>>

\* The caller appends one entry to r.Dst before Send.
AppendDst ==
    /\ pc = "build"
    /\ Len(Src) + Len(Dst) < MaxMsgs
    /\ \E m \in Entries(Len(Dst) + 1) : Dst' = Append(Dst, m)
    /\ UNCHANGED <<Src, MaxTxSize, MaxMsgLength, pc, i, msgLen, txSize, bz,
                   msgs, result, calls, ps, ctx, pure>>

\* Entry of Send: the zero locals, then the range over r.Src begins.
SendStart ==
    /\ pc = "build"
    /\ pc' = "src"
    /\ i' = 1
    /\ msgLen' = 0
    /\ txSize' = 0
    /\ msgs' = << >>
    /\ result' = ZeroResult
    /\ UNCHANGED <<Src, Dst, MaxTxSize, MaxMsgLength, bz, calls, ps, ctx, pure>>

\* A SendMessages invocation that has started and not yet returned.
Invoke(d, batch) ==
    [dest |-> d, msgs |-> batch, returned |-> FALSE, success |-> FALSE,
     err |-> NilErr, ctxErr |-> FALSE]

\* What a sender may return for the invocation at position k of the
\* history: any success flag, and a nil error or an error of its own.  A
\* sender honours the context: once it is done the call fails with the
\* cancellation error (ctxErr).
Outcomes(k) ==
    IF ctx = "done"
    THEN {[success |-> FALSE, err |-> <<k>>, ctxErr |-> TRUE]}
    ELSE [success : BOOLEAN, err : {NilErr, <<k>>}, ctxErr : {FALSE}]

\* The history once its last invocation has returned o.
Returned(o) ==
    [calls EXCEPT ![Len(calls)] =
        [@ EXCEPT !.returned = TRUE, !.success = o.success, !.err = o.err,
                  !.ctxErr = o.ctxErr]]

\* RecordSrc counting every call without an error as a success.
RecordSrcCountsNilErr(r, o) ==
    LET e == IF o.err # NilErr THEN MultierrAppend(r.SrcSendError, o.err)
             ELSE r.SrcSendError
        n == IF o.err = NilErr THEN r.SuccessfulSrcBatches + 1
             ELSE r.SuccessfulSrcBatches
    IN  [r EXCEPT !.SrcSendError = e, !.SuccessfulSrcBatches = n]

\* Outcome handling of a src submission.
RecordSrc(r, o) ==
    LET e == IF o.err # NilErr THEN MultierrAppend(r.SrcSendError, o.err)
             ELSE r.SrcSendError
        n == IF o.success THEN r.SuccessfulSrcBatches + 1
             ELSE r.SuccessfulSrcBatches
    IN  [r EXCEPT !.SrcSendError = e, !.SuccessfulSrcBatches = n]

\* RecordDst keeping only the latest error.
RecordDstOverwrites(r, o) ==
    LET e == IF o.err # NilErr THEN o.err ELSE r.DstSendError
        n == IF o.success THEN r.SuccessfulDstBatches + 1
             ELSE r.SuccessfulDstBatches
    IN  [r EXCEPT !.DstSendError = e, !.SuccessfulDstBatches = n]

\* Outcome handling of a dst submission.
RecordDst(r, o) ==
    LET e == IF o.err # NilErr THEN MultierrAppend(r.DstSendError, o.err)
             ELSE r.DstSendError
        n == IF o.success THEN r.SuccessfulDstBatches + 1
             ELSE r.SuccessfulDstBatches
    IN  [r EXCEPT !.DstSendError = e, !.SuccessfulDstBatches = n]

\* SrcLoop counting a nil entry as a message of the batch.
SrcLoopCountsNil ==
    /\ pc = "src"
    /\ i <= Len(Src)
    /\ LET msg == Src[i] IN
       IF msg = Nil
       THEN /\ i' = i + 1
            /\ msgLen' = msgLen + 1
            /\ UNCHANGED <<pc, txSize, bz, msgs, calls>>
       ELSE IF msg.fails
       THEN /\ pc' = "panicked"
            /\ UNCHANGED <<i, msgLen, txSize, bz, msgs, calls>>
       ELSE /\ bz' = msg.size
            /\ msgLen' = msgLen + 1
            /\ txSize' = txSize + msg.size
            /\ IF IsMaxTx(msgLen + 1, txSize + msg.size)
               THEN /\ calls' = Append(calls, Invoke("src", msgs))
                    /\ pc' = "srcSend"
                    /\ UNCHANGED <<i, msgs>>
               ELSE /\ msgs' = Append(msgs, msg)
                    /\ i' = i + 1
                    /\ UNCHANGED <<pc, calls>>
    /\ UNCHANGED <<Src, Dst, MaxTxSize, MaxMsgLength, result, ps, ctx, pure>>

\* One iteration of the range over r.Src, up to the append of the message
\* or to the start of the submission of the pending batch.
SrcLoop ==
    /\ pc = "src"
    /\ i <= Len(Src)
    /\ LET msg == Src[i] IN
       IF msg = Nil
       THEN /\ i' = i + 1
            /\ UNCHANGED <<pc, msgLen, txSize, bz, msgs, calls>>
       ELSE IF msg.fails
       THEN /\ pc' = "panicked"
            /\ UNCHANGED <<i, msgLen, txSize, bz, msgs, calls>>
       ELSE /\ bz' = msg.size
            /\ msgLen' = msgLen + 1
            /\ txSize' = txSize + msg.size
            /\ IF IsMaxTx(msgLen + 1, txSize + msg.size)
               THEN /\ calls' = Append(calls, Invoke("src", msgs))
                    /\ pc' = "srcSend"
                    /\ UNCHANGED <<i, msgs>>
               ELSE /\ msgs' = Append(msgs, msg)
                    /\ i' = i + 1
                    /\ UNCHANGED <<pc, calls>>
    /\ UNCHANGED <<Src, Dst, MaxTxSize, MaxMsgLength, result, ps, ctx, pure>>

\* SrcSendReturn forgetting to put the visited message in the new batch.
SrcSendReturnDropsCurrent ==
    /\ pc = "srcSend"
    /\ \E o \in Outcomes(Len(calls)) :
        /\ calls' = Returned(o)
        /\ result' = RecordSrc(result, o)
    /\ msgLen' = 1
    /\ txSize' = bz
    /\ msgs' = << >>
    /\ i' = i + 1
    /\ pc' = "src"
    /\ UNCHANGED <<Src, Dst, MaxTxSize, MaxMsgLength, bz, ps, ctx, pure>>

\* src.SendMessages returns inside the loop: record the outcome, reset the
\* batch to the message being visited.
SrcSendReturn ==
    /\ pc = "srcSend"
    /\ \E o \in Outcomes(Len(calls)) :
        /\ calls' = Returned(o)
        /\ result' = RecordSrc(result, o)
    /\ msgLen' = 1
    /\ txSize' = bz
    /\ msgs' = <<Src[i]>>
    /\ i' = i + 1
    /\ pc' = "src"
    /\ UNCHANGED <<Src, Dst, MaxTxSize, MaxMsgLength, bz, ps, ctx, pure>>

\* SrcLeftover submitting the leftover batch only if it has two messages.
SrcLeftoverOffByOne ==
    /\ pc = "src"
    /\ i > Len(Src)
    /\ IF Len(msgs) > 1
       THEN /\ calls' = Append(calls, Invoke("src", msgs))
            /\ pc' = "srcLeftoverSend"
            /\ UNCHANGED <<i, msgLen, txSize, msgs>>
       ELSE /\ msgLen' = 0
            /\ txSize' = 0
            /\ msgs' = << >>
            /\ i' = 1
            /\ pc' = "dst"
            /\ UNCHANGED calls
    /\ UNCHANGED <<Src, Dst, MaxTxSize, MaxMsgLength, bz, result, ps, ctx, pure>>

\* After the src loop: submit the leftover batch if there is one, else
\* reset the locals and go on to the range over r.Dst.
SrcLeftover ==
    /\ pc = "src"
    /\ i > Len(Src)
    /\ IF Len(msgs) > 0
       THEN /\ calls' = Append(calls, Invoke("src", msgs))
            /\ pc' = "srcLeftoverSend"
            /\ UNCHANGED <<i, msgLen, txSize, msgs>>
       ELSE /\ msgLen' = 0
            /\ txSize' = 0
            /\ msgs' = << >>
            /\ i' = 1
            /\ pc' = "dst"
            /\ UNCHANGED calls
    /\ UNCHANGED <<Src, Dst, MaxTxSize, MaxMsgLength, bz, result, ps, ctx, pure>>

\* SrcLeftoverReturn giving up the dst phase when the sender fails.
SrcLeftoverReturnAborts ==
    /\ pc = "srcLeftoverSend"
    /\ \E o \in Outcomes(Len(calls)) :
        /\ calls' = Returned(o)
        /\ result' = RecordSrc(result, o)
        /\ pc' = IF o.err # NilErr THEN "returned" ELSE "dst"
    /\ msgLen' = 0
    /\ txSize' = 0
    /\ msgs' = << >>
    /\ i' = 1
    /\ UNCHANGED <<Src, Dst, MaxTxSize, MaxMsgLength, bz, ps, ctx, pure>>

\* src.SendMessages returns for the leftover batch; then the reset.
SrcLeftoverReturn ==
    /\ pc = "srcLeftoverSend"
    /\ \E o \in Outcomes(Len(calls)) :
        /\ calls' = Returned(o)
        /\ result' = RecordSrc(result, o)
    /\ msgLen' = 0
    /\ txSize' = 0
    /\ msgs' = << >>
    /\ i' = 1
    /\ pc' = "dst"
    /\ UNCHANGED <<Src, Dst, MaxTxSize, MaxMsgLength, bz, ps, ctx, pure>>

\* DstLoop passing over a message whose MsgBytes() fails.
DstLoopSkipsFailing ==
    /\ pc = "dst"
    /\ i <= Len(Dst)
    /\ LET msg == Dst[i] IN
       IF msg = Nil
       THEN /\ i' = i + 1
            /\ UNCHANGED <<pc, msgLen, txSize, bz, msgs, calls>>
       ELSE IF msg.fails
       THEN /\ i' = i + 1
            /\ UNCHANGED <<pc, msgLen, txSize, bz, msgs, calls>>
       ELSE /\ bz' = msg.size
            /\ msgLen' = msgLen + 1
            /\ txSize' = txSize + msg.size
            /\ IF IsMaxTx(msgLen + 1, txSize + msg.size)
               THEN /\ calls' = Append(calls, Invoke("dst", msgs))
                    /\ pc' = "dstSend"
                    /\ UNCHANGED <<i, msgs>>
               ELSE /\ msgs' = Append(msgs, msg)
                    /\ i' = i + 1
                    /\ UNCHANGED <<pc, calls>>
    /\ UNCHANGED <<Src, Dst, MaxTxSize, MaxMsgLength, result, ps, ctx, pure>>

\* DstLoop counting the visited message twice when it asks IsMaxTx.
DstLoopClosesEarly ==
    /\ pc = "dst"
    /\ i <= Len(Dst)
    /\ LET msg == Dst[i] IN
       IF msg = Nil
       THEN /\ i' = i + 1
            /\ UNCHANGED <<pc, msgLen, txSize, bz, msgs, calls>>
       ELSE IF msg.fails
       THEN /\ pc' = "panicked"
            /\ UNCHANGED <<i, msgLen, txSize, bz, msgs, calls>>
       ELSE /\ bz' = msg.size
            /\ msgLen' = msgLen + 1
            /\ txSize' = txSize + msg.size
            /\ IF IsMaxTx(msgLen + 2, txSize + msg.size)
               THEN /\ calls' = Append(calls, Invoke("dst", msgs))
                    /\ pc' = "dstSend"
                    /\ UNCHANGED <<i, msgs>>
               ELSE /\ msgs' = Append(msgs, msg)
                    /\ i' = i + 1
                    /\ UNCHANGED <<pc, calls>>
    /\ UNCHANGED <<Src, Dst, MaxTxSize, MaxMsgLength, result, ps, ctx, pure>>

\* One iteration of the range over r.Dst.
DstLoop ==
    /\ pc = "dst"
    /\ i <= Len(Dst)
    /\ LET msg == Dst[i] IN
       IF msg = Nil
       THEN /\ i' = i + 1
            /\ UNCHANGED <<pc, msgLen, txSize, bz, msgs, calls>>
       ELSE IF msg.fails
       THEN /\ pc' = "panicked"
            /\ UNCHANGED <<i, msgLen, txSize, bz, msgs, calls>>
       ELSE /\ bz' = msg.size
            /\ msgLen' = msgLen + 1
            /\ txSize' = txSize + msg.size
            /\ IF IsMaxTx(msgLen + 1, txSize + msg.size)
               THEN /\ calls' = Append(calls, Invoke("dst", msgs))
                    /\ pc' = "dstSend"
                    /\ UNCHANGED <<i, msgs>>
               ELSE /\ msgs' = Append(msgs, msg)
                    /\ i' = i + 1
                    /\ UNCHANGED <<pc, calls>>
    /\ UNCHANGED <<Src, Dst, MaxTxSize, MaxMsgLength, result, ps, ctx, pure>>

\* DstSendReturn restarting the byte count of the new batch at zero.
DstSendReturnZeroSize ==
    /\ pc = "dstSend"
    /\ \E o \in Outcomes(Len(calls)) :
        /\ calls' = Returned(o)
        /\ result' = RecordDst(result, o)
    /\ msgLen' = 1
    /\ txSize' = 0
    /\ msgs' = <<Dst[i]>>
    /\ i' = i + 1
    /\ pc' = "dst"
    /\ UNCHANGED <<Src, Dst, MaxTxSize, MaxMsgLength, bz, ps, ctx, pure>>

\* dst.SendMessages returns inside the loop.
DstSendReturn ==
    /\ pc = "dstSend"
    /\ \E o \in Outcomes(Len(calls)) :
        /\ calls' = Returned(o)
        /\ result' = RecordDst(result, o)
    /\ msgLen' = 1
    /\ txSize' = bz
    /\ msgs' = <<Dst[i]>>
    /\ i' = i + 1
    /\ pc' = "dst"
    /\ UNCHANGED <<Src, Dst, MaxTxSize, MaxMsgLength, bz, ps, ctx, pure>>

\* DstLeftover handing the leftover dst batch to the src sender.
DstLeftoverToSrc ==
    /\ pc = "dst"
    /\ i > Len(Dst)
    /\ IF Len(msgs) > 0
       THEN /\ calls' = Append(calls, Invoke("src", msgs))
            /\ pc' = "dstLeftoverSend"
       ELSE /\ pc' = "returned"
            /\ UNCHANGED calls
    /\ UNCHANGED <<Src, Dst, MaxTxSize, MaxMsgLength, i, msgLen, txSize, bz,
                   msgs, result, ps, ctx, pure>>

\* After the dst loop: submit the leftover batch if there is one, else
\* return the result.
DstLeftover ==
    /\ pc = "dst"
    /\ i > Len(Dst)
    /\ IF Len(msgs) > 0
       THEN /\ calls' = Append(calls, Invoke("dst", msgs))
            /\ pc' = "dstLeftoverSend"
       ELSE /\ pc' = "returned"
            /\ UNCHANGED calls
    /\ UNCHANGED <<Src, Dst, MaxTxSize, MaxMsgLength, i, msgLen, txSize, bz,
                   msgs, result, ps, ctx, pure>>

\* dst.SendMessages returns for the leftover batch; Send returns result.
DstLeftoverReturn ==
    /\ pc = "dstLeftoverSend"
    /\ \E o \in Outcomes(Len(calls)) :
        /\ calls' = Returned(o)
        /\ result' = RecordDst(result, o)
    /\ pc' = "returned"
    /\ UNCHANGED <<Src, Dst, MaxTxSize, MaxMsgLength, i, msgLen, txSize, bz,
                   msgs, ps, ctx, pure>>

\* The owner of the context cancels it while a SendMessages call is in
\* flight (a cancellation between two calls is seen by the senders exactly
\* as one at the start of the next call).
Cancel ==
    /\ pc \in {"srcSend", "srcLeftoverSend", "dstSend", "dstLeftoverSend"}
    /\ ctx = "live"
    /\ ctx' = "done"
    /\ UNCHANGED <<Src, Dst, MaxTxSize, MaxMsgLength, pc, i, msgLen, txSize,
                   bz, msgs, result, calls, ps, pure>>

\* A caller asks the container, or a nil *RelayMsgs, whether it is ready.
CallReady ==
    /\ pc \in {"nil", "build"}
    /\ ready' = <<Ready>>
    /\ UNCHANGED <<Src, Dst, MaxTxSize, MaxMsgLength, pc, i, msgLen, txSize,
                   bz, msgs, result, calls, ps, ctx, maxTx, combined,
                   codecIn, codecOut>>

\* A caller asks the container whether a count l and a size t are over
\* the limits.
CallIsMaxTx ==
    /\ pc = "build"
    /\ \E l \in 0..MaxLimit + 1, t \in 0..MaxLimit + 1 :
           maxTx' = <<l, t, IsMaxTx(l, t)>>
    /\ UNCHANGED <<Src, Dst, MaxTxSize, MaxMsgLength, pc, i, msgLen, txSize,
                   bz, msgs, result, calls, ps, ctx, ready, combined,
                   codecIn, codecOut>>

\* c.Encoding.Amino.MarshalJSON(msg): fails, or yields the text of msg.
MarshalJSON(msg) ==
    [ok |-> msg.marshals,
     bz |-> [json |-> msg.id, size |-> msg.size, valid |-> TRUE]]

\* c.Encoding.Amino.UnmarshalJSON(blob, &sm): fails, or yields the message
\* the text stands for.
UnmarshalJSON(blob) ==
    [ok |-> blob.valid,
     sm |-> [id |-> blob.json, size |-> blob.size, marshals |-> TRUE]]

\* EncodeMsgs(c, msgs), the loop over msgs with outMsgs as accumulator.
RECURSIVE EncodeLoop(_, _)
EncodeLoop(msgs_, outMsgs) ==
    IF msgs_ = << >> THEN outMsgs
    ELSE LET r == MarshalJSON(Head(msgs_)) IN
         IF ~r.ok THEN EncodeLoop(Tail(msgs_), outMsgs)
         ELSE EncodeLoop(Tail(msgs_), Append(outMsgs, r.bz))

EncodeMsgs(msgs_) == EncodeLoop(msgs_, << >>)

\* DecodeMsgs giving up at the first blob that fails to parse.
RECURSIVE DecodeLoopAborts(_, _)
DecodeLoopAborts(blobs, outMsgs) ==
    IF blobs = << >> THEN outMsgs
    ELSE LET r == UnmarshalJSON(Head(blobs)) IN
         IF ~r.ok THEN outMsgs
         ELSE DecodeLoopAborts(Tail(blobs), Append(outMsgs, r.sm))

\* DecodeMsgs(c, msgs), the loop over msgs with outMsgs as accumulator.
RECURSIVE DecodeLoop(_, _)
DecodeLoop(blobs, outMsgs) ==
    IF blobs = << >> THEN outMsgs
    ELSE LET r == UnmarshalJSON(Head(blobs)) IN
         IF ~r.ok THEN DecodeLoop(Tail(blobs), outMsgs)
         ELSE DecodeLoop(Tail(blobs), Append(outMsgs, r.sm))

DecodeMsgs(blobs) == DecodeLoop(blobs, << >>)

\* A caller encodes the messages it holds.
CallEncodeMsgs ==
    /\ pc = "codec"
    /\ codecIn.op = "encode"
    /\ codecOut = << >>
    /\ codecOut' = <<EncodeMsgs(codecIn.items)>>
    /\ UNCHANGED <<Src, Dst, MaxTxSize, MaxMsgLength, pc, i, msgLen, txSize,
                   bz, msgs, result, calls, ps, ctx, ready, maxTx, combined,
                   codecIn>>

\* A caller decodes the text blobs it holds.
CallDecodeMsgs ==
    /\ pc = "codec"
    /\ codecIn.op = "decode"
    /\ codecOut = << >>
    /\ codecOut' = <<DecodeMsgs(codecIn.items)>>
    /\ UNCHANGED <<Src, Dst, MaxTxSize, MaxMsgLength, pc, i, msgLen, txSize,
                   bz, msgs, result, calls, ps, ctx, ready, maxTx, combined,
                   codecIn>>

\* The message sequences a caller may encode: the message at position k has
\* identity k, is small or large, and marshals or not.
EncodeInputs ==
    UNION {{[k \in 1..n |->
                [id |-> k, size |-> f[k][1], marshals |-> f[k][2]]] :
            f \in [1..n -> {1, MaxSize} \X BOOLEAN]} : n \in 0..MaxMsgs}

\* The blob sequences a caller may decode: the blob at position k is the
\* text of message k, well formed or not.
DecodeInputs ==
    UNION {{[k \in 1..n |->
                [json |-> k, size |-> f[k][1], valid |-> f[k][2]]] :
            f \in [1..n -> {1, MaxSize} \X BOOLEAN]} : n \in 0..MaxMsgs}

\* A caller about to call EncodeMsgs or DecodeMsgs.
InitCodec ==
    /\ Src = << >>
    /\ Dst = << >>
    /\ MaxTxSize = 0
    /\ MaxMsgLength = 0
    /\ pc = "codec"
    /\ i = 0
    /\ msgLen = 0
    /\ txSize = 0
    /\ bz = 0
    /\ msgs = << >>
    /\ result = ZeroResult
    /\ calls = << >>
    /\ ps = << >>
    /\ ctx = "live"
    /\ ready = << >>
    /\ maxTx = << >>
    /\ combined = << >>
    /\ codecIn \in
        {[op |-> "encode", items |-> x] : x \in EncodeInputs}
        \cup {[op |-> "decode", items |-> x] : x \in DecodeInputs}
    /\ codecOut = << >>

NextCodec == CallEncodeMsgs \/ CallDecodeMsgs

SpecCodec == InitCodec /\ [][NextCodec]_vars

\* A caller asks a SendMsgsResult value whether it was partially sent.
CallPartiallySent ==
    /\ pc = "returned"
    /\ ps = << >>
    /\ ps' = <<PartiallySent(result)>>
    /\ UNCHANGED <<Src, Dst, MaxTxSize, MaxMsgLength, pc, i, msgLen, txSize,
                   bz, msgs, result, calls, ctx, pure>>

Next ==
    \/ AppendSrc
    \/ AppendDst
    \/ SendStart
    \/ SrcLoop
    \/ SrcSendReturn
    \/ SrcLeftover
    \/ SrcLeftoverReturn
    \/ DstLoop
    \/ DstSendReturn
    \/ DstLeftover
    \/ DstLeftoverReturn

\* A caller asks a SendMsgsResult value for its combined error.
CallError ==
    /\ pc = "returned"
    /\ combined = << >>
    /\ combined' = <<Error(result)>>
    /\ UNCHANGED <<Src, Dst, MaxTxSize, MaxMsgLength, pc, i, msgLen, txSize,
                   bz, msgs, result, calls, ps, ctx, ready, maxTx, codecIn,
                   codecOut>>

\* The error values of the results the callers ask about.
ErrValues == {NilErr, <<1>>, <<1, 2>>}

\* Any SendMsgsResult value, as returned to a caller.
InitResult ==
    /\ Src = << >>
    /\ Dst = << >>
    /\ MaxTxSize = 0
    /\ MaxMsgLength = 0
    /\ pc = "returned"
    /\ i = 0
    /\ msgLen = 0
    /\ txSize = 0
    /\ bz = 0
    /\ msgs = << >>
    /\ result \in [SuccessfulSrcBatches : -1..MaxCount,
                   SuccessfulDstBatches : -1..MaxCount,
                   SrcSendError : ErrValues, DstSendError : ErrValues]
    /\ calls = << >>
    /\ ps = << >>
    /\ ctx = "live"
    /\ ready = << >>
    /\ maxTx = << >>
    /\ combined = << >>
    /\ codecIn = << >>
    /\ codecOut = << >>

NextResult == CallPartiallySent \/ CallError

SpecResult == InitResult /\ [][NextResult]_vars

Spec == Init /\ [][Next]_vars

\* A caller holds a nil *RelayMsgs.
InitNil ==
    /\ Src = << >>
    /\ Dst = << >>
    /\ MaxTxSize = 0
    /\ MaxMsgLength = 0
    /\ pc = "nil"
    /\ i = 0
    /\ msgLen = 0
    /\ txSize = 0
    /\ bz = 0
    /\ msgs = << >>
    /\ result = ZeroResult
    /\ calls = << >>
    /\ ps = << >>
    /\ ctx = "live"
    /\ ready = << >>
    /\ maxTx = << >>
    /\ combined = << >>
    /\ codecIn = << >>
    /\ codecOut = << >>

\* A container, fresh or nil, that its caller fills and asks Ready().
InitReady == Init \/ InitNil

NextReady == AppendSrc \/ AppendDst \/ CallReady

SpecReady == InitReady /\ [][NextReady]_vars

\* A container with any limits, asked IsMaxTx.
NextMaxTx == CallIsMaxTx

SpecMaxTx == Init /\ [][NextMaxTx]_vars

\* Send under a context that may be cancelled.  Under Spec the context
\* stays live; the cancellation error is then one more failing outcome, of
\* the kind the senders of Spec return already.
NextCtx == Next \/ Cancel

SpecCtx == Init /\ [][NextCtx]_vars

(***************************************************************************)
(* Vocabulary of the properties.                                           *)
(***************************************************************************)

\* The invocations made to the sender d, in the order they were made.
CallsTo(d) == SelectSeq(calls, LAMBDA c : c.dest = d)

\* The batches passed to the sender d, in submission order.
BatchesOf(d) == LET cs == CallsTo(d) IN [k \in 1..Len(cs) |-> cs[k].msgs]

\* The concatenation of a sequence of sequences.
RECURSIVE Flatten(_)
Flatten(ss) == IF ss = << >> THEN << >> ELSE Head(ss) \o Flatten(Tail(ss))

\* The non-nil entries of a message sequence, in order.
NonNil(seq) == SelectSeq(seq, LAMBDA m : m # Nil)

\* The sum of the serialized sizes of a batch.
RECURSIVE Bytes(_)
Bytes(batch) == IF batch = << >> THEN 0 ELSE Head(batch).size + Bytes(Tail(batch))

\* The input sequence of the destination d.
Input(d) == IF d = "src" THEN Src ELSE Dst

Dests == {"src", "dst"}

\* C1: every call Send makes to SendMessages passes a non-empty batch.
C1_NoEmptyBatch == \A k \in 1..Len(calls) : Len(calls[k].msgs) > 0

\* C2: when Send returns, the batches of each destination, concatenated in
\* submission order, are exactly the non-nil messages of its input sequence.
C2_ConcatIsInput ==
    pc = "returned" =>
        \A d \in Dests : Flatten(BatchesOf(d)) = NonNil(Input(d))

\* A returned Send that split two src messages, separated by a nil entry,
\* over two batches, one of which the sender refused with an error.
C2_Witness ==
    /\ pc = "returned"
    /\ Len(NonNil(Src)) = 2
    /\ Len(Src) = 3
    /\ Len(BatchesOf("src")) = 2
    /\ \E k \in 1..Len(calls) : calls[k].err # NilErr

\* C3: with a positive MaxMsgLength every submitted batch holds at most
\* MaxMsgLength messages, except a batch of one message whose own size is
\* over the size limit.
C3_BatchCountBounded ==
    MaxMsgLength > 0 =>
        \A k \in 1..Len(calls) :
            \/ Len(calls[k].msgs) <= MaxMsgLength
            \/ /\ Len(calls[k].msgs) = 1
               /\ MaxTxSize > 0
               /\ calls[k].msgs[1].size > MaxTxSize

\* A batch was closed by the count limit alone: it holds MaxMsgLength = 2
\* messages, the size limit is off and a later batch follows it.
C3_Witness ==
    /\ MaxMsgLength = 2
    /\ MaxTxSize = 0
    /\ \E d \in Dests :
        LET bs == BatchesOf(d)
        IN  Len(bs) >= 2 /\ Len(bs[1]) = 2

\* C4: with a positive MaxTxSize every submitted batch of two or more
\* messages has a cumulative serialized size of at most MaxTxSize.
C4_BatchBytesBounded ==
    MaxTxSize > 0 =>
        \A k \in 1..Len(calls) :
            Len(calls[k].msgs) >= 2 => Bytes(calls[k].msgs) <= MaxTxSize

\* Under a positive MaxTxSize one destination received a batch of two
\* messages that fills the limit after an earlier batch was closed.
C4_Witness ==
    /\ MaxTxSize > 0
    /\ \E d \in Dests :
        LET bs == BatchesOf(d)
        IN  \E k \in 2..Len(bs) :
                Len(bs[k]) = 2 /\ Bytes(bs[k]) = MaxTxSize

\* The number of times the message m occurs in the sequence flat.
Occurrences(flat, m) == Len(SelectSeq(flat, LAMBDA x : x = m))

\* m alone is larger than a positive MaxTxSize.
Oversized(m) == m # Nil /\ MaxTxSize > 0 /\ m.size > MaxTxSize

\* C5: when Send returns, a message larger than a positive MaxTxSize was
\* submitted exactly once, alone in its batch, and every other non-nil
\* message of its sequence was submitted too.
C5_OversizedAlone ==
    pc = "returned" =>
        \A d \in Dests :
            LET inp == Input(d) IN
            (\E j \in 1..Len(inp) : Oversized(inp[j])) =>
                LET bs == BatchesOf(d)
                    flat == Flatten(bs)
                IN  /\ \A j \in 1..Len(inp) :
                        Oversized(inp[j]) =>
                            /\ Occurrences(flat, inp[j]) = 1
                            /\ \E k \in 1..Len(bs) : bs[k] = <<inp[j]>>
                    /\ \A n \in 1..Len(inp) :
                        inp[n] # Nil => Occurrences(flat, inp[n]) >= 1

\* Send returned after an oversized message that stood between two
\* messages that fit.
C5_Witness ==
    /\ pc = "returned"
    /\ Len(Src) = 3
    /\ ~Oversized(Src[1]) /\ Src[1] # Nil
    /\ Oversized(Src[2])
    /\ ~Oversized(Src[3]) /\ Src[3] # Nil

\* The number of returned invocations of d that reported success.
Successes(d) ==
    Cardinality({k \in 1..Len(calls) :
        calls[k].dest = d /\ calls[k].returned /\ calls[k].success})

\* A step in which a sender returns success=false with a nil error.
SoftRejection ==
    /\ Len(calls') = Len(calls)
    /\ Len(calls) > 0
    /\ ~calls[Len(calls)].returned
    /\ calls'[Len(calls)].returned
    /\ ~calls'[Len(calls)].success
    /\ calls'[Len(calls)].err = NilErr

ErrorsOf(d) == LET cs == CallsTo(d) IN Flatten([k \in 1..Len(cs) |-> cs[k].err])

\* C7: when Send returns, the accumulated error of each destination holds
\* every error its calls returned, in submission order, and nothing else; it
\* is nil iff no call of that destination returned an error.
C7_ErrorsAccumulated ==
    pc = "returned" =>
        /\ result.SrcSendError = ErrorsOf("src")
        /\ result.DstSendError = ErrorsOf("dst")
        /\ (result.SrcSendError # NilErr) <=>
               (\E k \in 1..Len(calls) :
                    calls[k].dest = "src" /\ calls[k].err # NilErr)
        /\ (result.DstSendError # NilErr) <=>
               (\E k \in 1..Len(calls) :
                    calls[k].dest = "dst" /\ calls[k].err # NilErr)
        /\ \A n \in 1..Len(result.SrcSendError) :
               calls[result.SrcSendError[n]].dest = "src"
        /\ \A n \in 1..Len(result.DstSendError) :
               calls[result.DstSendError[n]].dest = "dst"

\* Send returned with two errors accumulated for src and one for dst.
C7_Witness ==
    /\ pc = "returned"
    /\ Len(result.SrcSendError) = 2
    /\ Len(result.DstSendError) = 1

\* C8: PartiallySent() is true iff a success count is positive and an
\* accumulated error is non-nil; it is false when both errors are nil and
\* false when both counts are 0.
C8_PartiallySent ==
    ps # << >> =>
        /\ ps[1] <=>
            /\ \E n \in {result.SuccessfulSrcBatches, result.SuccessfulDstBatches} :
                   n > 0
            /\ \E e \in {result.SrcSendError, result.DstSendError} : e # NilErr
        /\ (result.SrcSendError = NilErr /\ result.DstSendError = NilErr)
               => ~ps[1]
        /\ (result.SuccessfulSrcBatches = 0 /\ result.SuccessfulDstBatches = 0)
               => ~ps[1]

\* PartiallySent() answered true for a result with successes on dst only
\* and an error on src only.
C8_Witness ==
    /\ ps = <<TRUE>>
    /\ result.SuccessfulSrcBatches = 0
    /\ result.SuccessfulDstBatches > 0
    /\ result.SrcSendError # NilErr
    /\ result.DstSendError = NilErr

\* C9: at most one SendMessages call is in flight, it is the latest one,
\* and no src call starts after a dst call has started: a dst call starts
\* only when every src call has returned and the src loop is over.
C9_SrcBeforeDst ==
    /\ \A k \in 1..Len(calls) - 1 :
        /\ calls[k].returned
        /\ calls[k].dest = "dst" => calls[k + 1].dest = "dst"
    /\ (\E k \in 1..Len(calls) : calls[k].dest = "dst") =>
           pc \in {"dst", "dstSend", "dstLeftoverSend", "returned", "panicked"}

\* Two src calls have returned and a second dst call is in flight.
C9_Witness ==
    /\ Len(CallsTo("src")) = 2
    /\ Len(CallsTo("dst")) = 2
    /\ ~calls[Len(calls)].returned

\* The batches Send is to submit for a sequence, from the sequence and the
\* limits alone: pending is the open batch, l and t its count and bytes.
\* Nothing is submitted from a message whose MsgBytes() fails onwards.
RECURSIVE ExpectedBatches(_, _, _, _)
ExpectedBatches(seq, pending, l, t) ==
    IF seq = << >> THEN (IF pending = << >> THEN << >> ELSE <<pending>>)
    ELSE LET m == Head(seq) IN
         IF m = Nil THEN ExpectedBatches(Tail(seq), pending, l, t)
         ELSE IF m.fails THEN << >>
         ELSE IF IsMaxTx(l + 1, t + m.size)
              THEN <<pending>> \o ExpectedBatches(Tail(seq), <<m>>, 1, m.size)
              ELSE ExpectedBatches(Tail(seq), Append(pending, m), l + 1,
                                   t + m.size)

\* s is an initial part of t.
IsPrefix(s, t) == Len(s) <= Len(t) /\ s = SubSeq(t, 1, Len(s))

\* C10: whatever the senders return, the batches submitted to each
\* destination are those the sequences and the limits determine: when a
\* call starts (the history grows at no other step) the batches of its
\* destination are an initial part of them, and when Send returns the
\* batches of both destinations are all of them.
C10_OutcomesDoNotAlterBatches ==
    /\ pc \in {"srcSend", "srcLeftoverSend", "dstSend", "dstLeftoverSend"} =>
           LET d == calls[Len(calls)].dest
           IN  IsPrefix(BatchesOf(d), ExpectedBatches(Input(d), << >>, 0, 0))
    /\ pc = "returned" =>
           \A d \in Dests :
               BatchesOf(d) = ExpectedBatches(Input(d), << >>, 0, 0)

\* Send returned, both src batches failed with an error and the dst batch
\* was submitted all the same.
C10_Witness ==
    /\ pc = "returned"
    /\ Len(CallsTo("src")) = 2
    /\ \A k \in 1..Len(calls) :
           calls[k].dest = "src" => calls[k].err # NilErr /\ ~calls[k].success
    /\ \E k \in 1..Len(calls) :
           calls[k].dest = "dst" /\ Len(calls[k].msgs) > 0

\* A SendMessages call has returned the cancellation error.
CancelObserved ==
    \E k \in 1..Len(calls) : calls[k].returned /\ calls[k].ctxErr

\* C11: once a SendMessages call has returned the cancellation error, Send
\* starts no new submission on either destination.
C11_NoBatchAfterCancel == [][CancelObserved => Len(calls') = Len(calls)]_vars

\* Some non-nil message of seq fails to serialize.
HasFailing(seq) == \E j \in 1..Len(seq) : seq[j] # Nil /\ seq[j].fails

\* C12: a failing MsgBytes() makes Send panic at once: Send returns no
\* result when a sequence holds such a message, the panicking step makes no
\* call, nothing happens after it, and what was submitted is only what the
\* entries before the failing message had closed (the pending batch is not
\* submitted; no dst call when the src loop panicked).
C12_PanicAborts ==
    /\ [](pc = "returned" => ~HasFailing(Src) /\ ~HasFailing(Dst))
    /\ [](pc = "panicked" =>
            /\ \A k \in 1..Len(calls) : calls[k].returned
            /\ IF HasFailing(Src)
               THEN /\ BatchesOf("src") = ExpectedBatches(Src, << >>, 0, 0)
                    /\ BatchesOf("dst") = << >>
               ELSE BatchesOf("dst") = ExpectedBatches(Dst, << >>, 0, 0))
    /\ [][pc' = "panicked" => calls' = calls /\ result' = result]_vars
    /\ [][pc # "panicked"]_vars

\* Send panicked in the src loop after one submission, with a pending
\* batch and with dst messages waiting.
C12_Witness ==
    /\ pc = "panicked"
    /\ Len(calls) >= 1
    /\ msgs # << >>
    /\ HasFailing(Src)
    /\ NonNil(Dst) # << >>

\* C13: a container fresh from NewRelayMsgs has two empty sequences, and
\* Ready() returns false iff both sequences are empty or the container is
\* nil: it returns true as soon as either sequence has an entry.
C13_Ready ==
    /\ (pc = "build" => Src = << >> /\ Dst = << >>)
    /\ [][ready' # ready =>
            ready' = <<pc # "nil" /\ (Len(Src) >= 1 \/ Len(Dst) >= 1)>>]_vars

\* Ready() answered true for a container whose only entry is a nil
\* placeholder in Dst.
C13_Witness ==
    /\ ready = <<TRUE>>
    /\ Src = << >>
    /\ Dst = <<Nil>>

\* C14: IsMaxTx(l, t) is false exactly when the count is within its limit
\* or that limit is zero, and the size is within its limit or that limit
\* is zero; with both limits zero it is false for every input.
C14_IsMaxTx ==
    maxTx # << >> =>
        LET l == maxTx[1]
            t == maxTx[2]
            b == maxTx[3]
        IN  /\ ~b <=> /\ (MaxMsgLength = 0 \/ l <= MaxMsgLength)
                      /\ (MaxTxSize = 0 \/ t <= MaxTxSize)
            /\ MaxMsgLength = 0 => (b <=> (MaxTxSize # 0 /\ t > MaxTxSize))
            /\ MaxTxSize = 0 => (b <=> (MaxMsgLength # 0 /\ l > MaxMsgLength))
            /\ (MaxMsgLength = 0 /\ MaxTxSize = 0) => ~b

\* IsMaxTx answered true because of the count alone, the size limit being
\* off.
C14_Witness ==
    /\ maxTx # << >>
    /\ maxTx[3]
    /\ MaxTxSize = 0
    /\ maxTx[2] > 0
    /\ maxTx[1] = MaxMsgLength + 1

\* The success counter and the accumulated error of the destination d.
CountOf(d) ==
    IF d = "src" THEN result.SuccessfulSrcBatches
    ELSE result.SuccessfulDstBatches

ErrorOf(d) == IF d = "src" THEN result.SrcSendError ELSE result.DstSendError

\* C15: with both limits zero, a returned Send made exactly one call, with
\* all its non-nil messages, for each destination that has a non-nil
\* message, and no call for a destination without one, whose counter is
\* then 0 and whose error is nil.
C15_UnlimitedOneBatch ==
    (pc = "returned" /\ MaxMsgLength = 0 /\ MaxTxSize = 0) =>
        \A d \in Dests :
            LET nn == NonNil(Input(d))
                bs == BatchesOf(d)
            IN  IF nn = << >>
                THEN bs = << >> /\ CountOf(d) = 0 /\ ErrorOf(d) = NilErr
                ELSE bs = <<nn>>

\* Without limits Send returned after one single call, carrying the three
\* messages of Dst, the Src sequence being empty.
C15_Witness ==
    /\ pc = "returned"
    /\ MaxMsgLength = 0
    /\ MaxTxSize = 0
    /\ Src = << >>
    /\ Len(NonNil(Dst)) = 3
    /\ Len(calls) = 1
    /\ Len(calls[1].msgs) = 3

\* C16: no submitted batch holds a nil entry, and the batches of a returned
\* Send for a sequence that has nil entries are those of the same sequence
\* without them.
C16_NilEntriesIgnored ==
    /\ calls # << >> =>
           \A p \in 1..Len(calls[Len(calls)].msgs) :
               calls[Len(calls)].msgs[p] # Nil
    /\ pc = "returned" =>
           \A d \in Dests :
               (\E j \in 1..Len(Input(d)) : Input(d)[j] = Nil) =>
                   BatchesOf(d) =
                       ExpectedBatches(NonNil(Input(d)), << >>, 0, 0)

\* Send returned after it put the two messages around a nil entry of Src
\* in one batch, under a count limit of two.
C16_Witness ==
    /\ pc = "returned"
    /\ MaxMsgLength = 2
    /\ Len(Src) = 3
    /\ Src[2] = Nil
    /\ BatchesOf("src") = <<<<Src[1], Src[3]>>>>

\* C17: Error() returns nil iff both accumulated errors are nil; otherwise
\* it returns every constituent of SrcSendError, in order, followed by every
\* constituent of DstSendError, in order, and nothing else.
C17_CombinedError ==
    combined # << >> =>
        LET e == combined[1]
            s == result.SrcSendError
            d == result.DstSendError
        IN  /\ e = NilErr <=> (s = NilErr /\ d = NilErr)
            /\ Len(e) = Len(s) + Len(d)
            /\ \A n \in 1..Len(s) : e[n] = s[n]
            /\ \A n \in 1..Len(d) : e[Len(s) + n] = d[n]

\* Error() combined a two-fold src error and a single dst error.
C17_Witness ==
    /\ combined # << >>
    /\ Len(result.SrcSendError) = 2
    /\ Len(result.DstSendError) = 1
    /\ Len(combined[1]) = 3

\* The inputs of a codec call that convert, in their input order.
Converting(items, op) ==
    SelectSeq(items, LAMBDA x : IF op = "encode" THEN x.marshals ELSE x.valid)

\* The identity of a codec input or output: the position its message had.
IdentityOf(x) == IF "id" \in DOMAIN x THEN x.id ELSE x.json

\* C18: EncodeMsgs and DecodeMsgs return one output for each input that
\* converts, in the input order, and nothing for an input that fails.
C18_CodecOmitsFailures ==
    codecOut # << >> =>
        LET out == codecOut[1]
            good == Converting(codecIn.items, codecIn.op)
        IN  /\ Len(out) = Len(good)
            /\ \A n \in 1..Len(out) :
                /\ IdentityOf(out[n]) = IdentityOf(good[n])
                /\ out[n].size = good[n].size
                /\ IF codecIn.op = "encode" THEN out[n].valid
                   ELSE out[n].marshals

\* DecodeMsgs was given three blobs, the second malformed, and returned the
\* first and the third message.
C18_Witness ==
    /\ codecOut # << >>
    /\ codecIn.op = "decode"
    /\ Len(codecIn.items) = 3
    /\ codecIn.items[1].valid
    /\ ~codecIn.items[2].valid
    /\ codecIn.items[3].valid
    /\ Len(codecOut[1]) = 2
    /\ codecOut[1][1].id = 1
    /\ codecOut[1][2].id = 3

\* The entry the loop of Send is visiting.
Visited == IF pc \in {"src", "srcSend"} THEN Src[i] ELSE Dst[i]

\* C19: batching is greedy.  A call starts inside a loop only when the
\* pending batch with the visited message added is over a limit; the batch
\* it submits is the pending batch, without that message; when the call
\* returns, that message alone is the new pending batch, with count 1 and
\* its own size.  Hence of two consecutive batches of a destination, the
\* first with the first message of the second added is over a limit.
C19_Greedy ==
    /\ [][(pc \in {"src", "dst"} /\ pc' \in {"srcSend", "dstSend"}) =>
            /\ IsMaxTx(Len(msgs) + 1, Bytes(msgs) + Visited.size)
            /\ calls'[Len(calls')].msgs = msgs
            /\ \A p \in 1..Len(msgs) : msgs[p] # Visited]_vars
    /\ [][(pc \in {"srcSend", "dstSend"} /\ pc' \in {"src", "dst"}) =>
            /\ msgs' = <<Visited>>
            /\ msgLen' = 1
            /\ txSize' = Visited.size]_vars
    /\ [](pc \in {"srcSend", "srcLeftoverSend", "dstSend", "dstLeftoverSend"} =>
            \A d \in Dests :
                LET bs == BatchesOf(d) IN
                \A k \in 1..Len(bs) - 1 :
                    /\ bs[k + 1] # << >>
                    /\ IsMaxTx(Len(bs[k]) + 1,
                               Bytes(bs[k]) + bs[k + 1][1].size))

\* Send returned after the size limit closed a batch of two src messages
\* before a third one, the count limit being off.
C19_Witness ==
    /\ pc = "returned"
    /\ MaxMsgLength = 0
    /\ MaxTxSize > 0
    /\ LET bs == BatchesOf("src")
       IN  /\ Len(bs) = 2
           /\ Len(bs[1]) = 2
           /\ Bytes(bs[1]) <= MaxTxSize
           /\ Bytes(bs[1]) + bs[2][1].size > MaxTxSize

\* C20: a returned result that is partially sent comes from at least two
\* calls, one that reported success and another one that returned an error.
C20_PartialNeedsTwoCalls ==
    (pc = "returned" /\ PartiallySent(result)) =>
        \E k1 \in 1..Len(calls), k2 \in 1..Len(calls) :
            /\ k1 # k2
            /\ calls[k1].success
            /\ calls[k2].err # NilErr
====
